---- MODULE Spec2Model ----
(***************************************************************************)
(* A model of cleaning_file.py: the cleaning pipeline clean_dataset, the   *)
(* file helpers _read_file / _write_file and the wrapper                   *)
(* load_clean_validate.                                                    *)
(*                                                                         *)
(* Text is a sequence of one-character strings, so that strip, lower,      *)
(* title, substring search and the regular expressions are computed        *)
(* character by character.  A cell is a tagged value: text, number, bool,  *)
(* date or the missing marker NaN.  A DataFrame is a list of column        *)
(* labels and, per label, the list of its cells.  DataFrames live in a     *)
(* heap of objects, so that "the caller's dataset" and "the pipeline's     *)
(* copy" are different objects only if the code makes them so.             *)
(*                                                                         *)
(* pandas semantics are those of pandas 1.x / 2.x with object-dtype text   *)
(* columns: astype(str) turns a missing value into the text "nan".         *)
(***************************************************************************)
EXTENDS Integers, Sequences, FiniteSets, TLC

VARIABLES
    heap,       \* object id -> DataFrame: every DataFrame object alive
    caller,     \* object id of the dataset the caller holds (0: none yet)
    given,      \* the value of the caller's dataset when it was handed over
    calls,      \* the results of the clean_dataset calls made so far
    path,       \* the file_path argument of load_clean_validate
    disk,       \* environment: whether the input can be read, the output written
    files,      \* path -> the file _write_file has put there
    pc,         \* position inside load_clean_validate ("caller": not in it)
    ret,        \* what load_clean_validate returned (<<>>: nothing yet)
    printed     \* what load_clean_validate printed last

vars == <<heap, caller, given, calls, path, disk, files, pc, ret, printed>>

---------------------------------------------------------------------------
(* Characters and text *)

UpperSeq == <<"A", "B", "C", "D", "E", "F", "G", "H", "I", "J", "K", "L", "M",
              "N", "O", "P", "Q", "R", "S", "T", "U", "V", "W", "X", "Y", "Z">>
LowerSeq == <<"a", "b", "c", "d", "e", "f", "g", "h", "i", "j", "k", "l", "m",
              "n", "o", "p", "q", "r", "s", "t", "u", "v", "w", "x", "y", "z">>
DigitSeq == <<"0", "1", "2", "3", "4", "5", "6", "7", "8", "9">>

Range(s) == {s[i] : i \in DOMAIN s}

IsUpper(c) == c \in Range(UpperSeq)
IsLower(c) == c \in Range(LowerSeq)
IsAlpha(c) == IsUpper(c) \/ IsLower(c)
IsDigit(c) == c \in Range(DigitSeq)
\* str.isspace for the characters of the model
IsSpace(c) == c \in {" ", "\t", "\n"}

IndexIn(s, c) == CHOOSE i \in DOMAIN s : s[i] = c

LowerChar(c) == IF IsUpper(c) THEN LowerSeq[IndexIn(UpperSeq, c)] ELSE c
UpperChar(c) == IF IsLower(c) THEN UpperSeq[IndexIn(LowerSeq, c)] ELSE c

\* str.lower()
Lower(s) == [i \in DOMAIN s |-> LowerChar(s[i])]

\* str.title(): a letter is upper-cased when the character before it is not a
\* letter, lower-cased otherwise
Title(s) ==
    [i \in DOMAIN s |->
        IF i > 1 /\ IsAlpha(s[i - 1]) THEN LowerChar(s[i]) ELSE UpperChar(s[i])]

\* str.strip(): drop leading and trailing whitespace
Strip(s) ==
    LET keep == {i \in DOMAIN s : ~IsSpace(s[i])}
    IN  IF keep = {} THEN <<>>
        ELSE LET lo == CHOOSE i \in keep : \A j \in keep : i <= j
                 hi == CHOOSE i \in keep : \A j \in keep : j <= i
             IN  SubSeq(s, lo, hi)

\* str.startswith / str.endswith
StartsWithAt(s, t, i) ==
    /\ i >= 1
    /\ i + Len(t) - 1 <= Len(s)
    /\ \A k \in DOMAIN t : s[i + k - 1] = t[k]
EndsWith(s, t) == Len(t) <= Len(s) /\ StartsWithAt(s, t, Len(s) - Len(t) + 1)

\* Series.str.contains(key) for a key without regex metacharacters
Contains(s, key) == \E i \in 1..(Len(s) + 1) : StartsWithAt(s, key, i)

---------------------------------------------------------------------------
(* Column labels and configuration tables (lines 22-68) *)

City == <<"C", "i", "t", "y">>
Product_Category == <<"P", "r", "o", "d", "u", "c", "t", "_", "C", "a", "t", "e", "g", "o", "r", "y">>
Product_Name == <<"P", "r", "o", "d", "u", "c", "t", "_", "N", "a", "m", "e">>
Payment_Mode == <<"P", "a", "y", "m", "e", "n", "t", "_", "M", "o", "d", "e">>
Delivery_Status == <<"D", "e", "l", "i", "v", "e", "r", "y", "_", "S", "t", "a", "t", "u", "s">>
Customer_Name == <<"C", "u", "s", "t", "o", "m", "e", "r", "_", "N", "a", "m", "e">>
Email == <<"E", "m", "a", "i", "l">>
Gender == <<"G", "e", "n", "d", "e", "r">>
Country == <<"C", "o", "u", "n", "t", "r", "y">>
Purchase_Amount == <<"P", "u", "r", "c", "h", "a", "s", "e", "_", "A", "m", "o", "u", "n", "t">>
Discount_Offered == <<"D", "i", "s", "c", "o", "u", "n", "t", "_", "O", "f", "f", "e", "r", "e", "d">>
Customer_Satisfaction == <<"C", "u", "s", "t", "o", "m", "e", "r", "_", "S", "a", "t", "i", "s", "f", "a", "c", "t", "i", "o", "n">>
Age == <<"A", "g", "e">>
Purchase_Date == <<"P", "u", "r", "c", "h", "a", "s", "e", "_", "D", "a", "t", "e">>
Email_Valid == <<"E", "m", "a", "i", "l", "_", "V", "a", "l", "i", "d">>
Data_Quality_Issues == <<"D", "a", "t", "a", "_", "Q", "u", "a", "l", "i", "t", "y", "_", "I", "s", "s", "u", "e", "s">>

Electronics == <<"E", "l", "e", "c", "t", "r", "o", "n", "i", "c", "s">>
Home == <<"H", "o", "m", "e">>
Fashion == <<"F", "a", "s", "h", "i", "o", "n">>
Beauty == <<"B", "e", "a", "u", "t", "y">>
Books == <<"B", "o", "o", "k", "s">>

\* a dict, as the list of its (key, value) pairs in insertion order
CATEGORY_MAPPINGS ==
    << << <<"l", "a", "p", "t", "o", "p">>, Electronics >>,
       << <<"s", "o", "f", "a">>, Home >>,
       << <<"s", "h", "o", "e", "s">>, Fashion >>,
       << <<"s", "h", "a", "m", "p", "o", "o">>, Beauty >>,
       << <<"n", "o", "v", "e", "l">>, Books >> >>

TEXT_COLUMNS ==
    << City, Product_Category, Product_Name, Payment_Mode, Delivery_Status,
       Customer_Name, Email, Gender, Country >>

NUMERIC_COLUMNS ==
    << Purchase_Amount, Discount_Offered, Customer_Satisfaction, Age >>

DATE_COLUMNS == << Purchase_Date >>

PAYMENT_MODE_MAP ==
    << << <<"u", "p", "i">>, <<"U", "P", "I">> >>,
       << <<"d", "e", "b", "i", "t", " ", "c", "a", "r", "d">>,
          <<"D", "e", "b", "i", "t", " ", "C", "a", "r", "d">> >>,
       << <<"c", "r", "e", "d", "i", "t", " ", "c", "a", "r", "d">>,
          <<"C", "r", "e", "d", "i", "t", " ", "C", "a", "r", "d">> >>,
       << <<"c", "a", "s", "h">>, <<"C", "a", "s", "h">> >>,
       << <<"n", "e", "t", " ", "b", "a", "n", "k", "i", "n", "g">>,
          <<"N", "e", "t", " ", "B", "a", "n", "k", "i", "n", "g">> >> >>

DELIVERY_STATUS_MAP ==
    << << <<"d", "e", "l", "i", "v", "e", "r", "e", "d">>,
          <<"D", "e", "l", "i", "v", "e", "r", "e", "d">> >>,
       << <<"p", "e", "n", "d", "i", "n", "g">>, <<"P", "e", "n", "d", "i", "n", "g">> >>,
       << <<"c", "a", "n", "c", "e", "l", "l", "e", "d">>,
          <<"C", "a", "n", "c", "e", "l", "l", "e", "d">> >>,
       << <<"r", "e", "t", "u", "r", "n", "e", "d">>,
          <<"R", "e", "t", "u", "r", "n", "e", "d">> >> >>

GENDER_MAP ==
    << << <<"m", "a", "l", "e">>, <<"M", "a", "l", "e">> >>,
       << <<"f", "e", "m", "a", "l", "e">>, <<"F", "e", "m", "a", "l", "e">> >>,
       << <<"m">>, <<"M", "a", "l", "e">> >>,
       << <<"f">>, <<"F", "e", "m", "a", "l", "e">> >> >>

\* key in d
HasKey(d, k) == \E i \in DOMAIN d : d[i][1] = k
\* d[k]
Lookup(d, k) == d[CHOOSE i \in DOMAIN d : d[i][1] = k][2]

\* EMAIL_REGEX  ^[a-zA-Z0-9._%+-]+@[a-zA-Z0-9.-]+\.[a-zA-Z]{2,}$  matched
\* against the whole of s: at is the position of the "@", dot of the last "."
IsLocalChar(c) == IsAlpha(c) \/ IsDigit(c) \/ c \in {".", "_", "%", "+", "-"}
IsDomainChar(c) == IsAlpha(c) \/ IsDigit(c) \/ c \in {".", "-"}
EMAIL_REGEX(s) ==
    \* "$" also matches before one trailing newline
    LET n == IF Len(s) >= 1 /\ s[Len(s)] = "\n" THEN {Len(s), Len(s) - 1} ELSE {Len(s)}
    IN  \E e \in n : \E at \in 2..e : \E dot \in (at + 2)..(e - 2) :
            /\ s[at] = "@"
            /\ s[dot] = "."
            /\ \A i \in 1..(at - 1) : IsLocalChar(s[i])
            /\ \A i \in (at + 1)..(dot - 1) : IsDomainChar(s[i])
            /\ \A i \in (dot + 1)..e : IsAlpha(s[i])

---------------------------------------------------------------------------
(* Cells *)

NaN == [t |-> "nan"]
Str(s) == [t |-> "str", v |-> s]
Num(n) == [t |-> "num", v |-> n]
Bool(b) == [t |-> "bool", v |-> b]
Date(y, mo, d) == [t |-> "date", v |-> <<y, mo, d>>]

\* Series.isna() on one cell
IsNa(c) == c.t = "nan"

RECURSIVE DigitsOf(_)
DigitsOf(n) ==
    IF n < 10 THEN <<DigitSeq[n + 1]>>
    ELSE DigitsOf(n \div 10) \o <<DigitSeq[(n % 10) + 1]>>

\* str(x) of an int
IntText(n) == IF n < 0 THEN <<"-">> \o DigitsOf(0 - n) ELSE DigitsOf(n)

RECURSIVE DigitsValue(_)
DigitsValue(s) ==
    IF s = <<>> THEN 0
    ELSE 10 * DigitsValue(SubSeq(s, 1, Len(s) - 1)) + (IndexIn(DigitSeq, s[Len(s)]) - 1)

Pad2(n) == IF n < 10 THEN <<"0">> \o DigitsOf(n) ELSE DigitsOf(n)

\* Series.astype(str) on one cell of an object column: a missing value
\* becomes the text "nan"
AsStr(c) ==
    CASE c.t = "str" -> c
      [] c.t = "nan" -> Str(<<"n", "a", "n">>)
      [] c.t = "num" -> Str(IntText(c.v))
      [] c.t = "bool" -> Str(IF c.v THEN <<"T", "r", "u", "e">> ELSE <<"F", "a", "l", "s", "e">>)
      \* a date prints as YYYY-MM-DD; the inputs of the model hold none in a
      \* text column
      [] c.t = "date" ->
            Str(DigitsOf(c.v[1]) \o <<"-">> \o Pad2(c.v[2]) \o <<"-">> \o Pad2(c.v[3]))

\* the .str accessor: a text method on a text cell, NaN on any other cell
StrStrip(c) == IF c.t = "str" THEN Str(Strip(c.v)) ELSE NaN
StrLower(c) == IF c.t = "str" THEN Str(Lower(c.v)) ELSE NaN
StrTitle(c) == IF c.t = "str" THEN Str(Title(c.v)) ELSE NaN

\* pd.to_numeric(errors="coerce") on one cell; text is an optionally signed
\* run of digits or unparsable (the inputs of the model hold no other number
\* syntax and no fractions)
ToNumeric(c) ==
    CASE c.t = "num" -> c
      [] c.t = "bool" -> Num(IF c.v THEN 1 ELSE 0)
      [] c.t = "str" ->
            LET s == Strip(c.v)
                body == IF s # <<>> /\ s[1] \in {"-", "+"} THEN Tail(s) ELSE s
            IN  IF body # <<>> /\ \A i \in DOMAIN body : IsDigit(body[i])
                THEN Num(IF s[1] = "-" THEN 0 - DigitsValue(body) ELSE DigitsValue(body))
                ELSE NaN
      [] OTHER -> NaN

\* pd.to_datetime(errors="coerce", dayfirst=False) on one cell; text is
\* MM/DD/YYYY or unparsable (the inputs of the model hold no other date syntax)
DaysIn(y, mo) ==
    IF mo = 2 THEN (IF (y % 4 = 0 /\ y % 100 # 0) \/ y % 400 = 0 THEN 29 ELSE 28)
    ELSE IF mo \in {4, 6, 9, 11} THEN 30 ELSE 31
ToDatetime(c) ==
    CASE c.t = "date" -> c
      [] c.t = "str" ->
            LET s == c.v
            IN  IF /\ Len(s) = 10
                   /\ s[3] = "/" /\ s[6] = "/"
                   /\ \A i \in {1, 2, 4, 5, 7, 8, 9, 10} : IsDigit(s[i])
                THEN LET mo == DigitsValue(SubSeq(s, 1, 2))
                         d == DigitsValue(SubSeq(s, 4, 5))
                         y == DigitsValue(SubSeq(s, 7, 10))
                     IN  IF mo \in 1..12 /\ d \in 1..DaysIn(y, mo) /\ y >= 1
                         THEN Date(y, mo, d) ELSE NaN
                ELSE NaN
      [] OTHER -> NaN

---------------------------------------------------------------------------
(* DataFrames *)

\* A DataFrame: its column labels, and per label the cells of that column;
\* n is the length of the index
Frame(columns, data, n) == [columns |-> columns, data |-> data, n |-> n]

\* col in df.columns
HasCol(df, col) == col \in Range(df.columns)
ColIndex(df, col) == CHOOSE i \in DOMAIN df.columns : df.columns[i] = col
\* df[col]
GetCol(df, col) == df.data[ColIndex(df, col)]
\* df[col] = series: replaces the column, or appends a new one
SetCol(df, col, series) ==
    IF HasCol(df, col)
    THEN [df EXCEPT !.data[ColIndex(df, col)] = series]
    ELSE [df EXCEPT !.columns = Append(@, col), !.data = Append(@, series)]

\* a column of the frame's height holding one value
Full(df, c) == [r \in 1..df.n |-> c]

\* for col in cols: if col in df.columns: df[col] = cells[col], where cells
\* holds a new column for each position
SetCols(df, cols, cells) ==
    [df EXCEPT !.data =
        [i \in DOMAIN df.data |->
            IF df.columns[i] \in Range(cols) THEN cells[i] ELSE df.data[i]]]

\* df.loc[mask, col] = value: sets the masked rows; a column that does not
\* exist is first created holding NaN in every row (the frames of the model
\* have at least one row)
LocSet(df, mask, col, value) ==
    LET old == IF HasCol(df, col) THEN GetCol(df, col) ELSE Full(df, NaN)
    IN  SetCol(df, col, [r \in 1..df.n |-> IF mask[r] THEN value ELSE old[r]])

\* df.loc[mask, col] += text
LocAppend(df, mask, col, text) ==
    LET old == GetCol(df, col)
    IN  SetCol(df, col,
            [r \in 1..df.n |-> IF mask[r] THEN Str(old[r].v \o text) ELSE old[r]])

---------------------------------------------------------------------------
(* clean_dataset, step by step (lines 90-164) *)

\* 1: df.columns = df.columns.str.strip()
StripColumns(df) == [df EXCEPT !.columns = [i \in DOMAIN @ |-> Strip(@[i])]]

\* 2: text normalisation
TextNormalise(df) ==
    SetCols(df, TEXT_COLUMNS,
        [i \in DOMAIN df.data |-> [r \in 1..df.n |-> StrStrip(AsStr(df.data[i][r]))]])

\* a variant of KeyMask that leaves out .str.lower()
KeyMaskCaseSensitive(df, key) ==
    LET name == GetCol(df, Product_Name)
    IN  [r \in 1..df.n |-> name[r].t = "str" /\ Contains(name[r].v, key)]

\* 3: one iteration of the loop over CATEGORY_MAPPINGS.items()
KeyMask(df, key) ==
    LET name == GetCol(df, Product_Name)
    IN  [r \in 1..df.n |->
            LET low == StrLower(name[r])
            IN  low.t = "str" /\ Contains(low.v, key)]

RECURSIVE CorrectFrom(_, _)
CorrectFrom(df, k) ==
    IF k > Len(CATEGORY_MAPPINGS) THEN df
    ELSE CorrectFrom(
            LocSet(df, KeyMask(df, CATEGORY_MAPPINGS[k][1]), Product_Category,
                   Str(CATEGORY_MAPPINGS[k][2])),
            k + 1)

\* 3: df["Product_Name"] raises KeyError when the column does not exist
CategoryRaises(df) == ~HasCol(df, Product_Name)
CategoryCorrection(df) == CorrectFrom(df, 1)

\* 4: numeric coercion
NumericCoercion(df) ==
    SetCols(df, NUMERIC_COLUMNS,
        [i \in DOMAIN df.data |-> [r \in 1..df.n |-> ToNumeric(df.data[i][r])]])

\* 5: date parsing
DateParsing(df) ==
    SetCols(df, DATE_COLUMNS,
        [i \in DOMAIN df.data |-> [r \in 1..df.n |-> ToDatetime(df.data[i][r])]])

\* a variant of Harmonise that leaves out .str.lower()
HarmoniseCaseSensitive(c, table) ==
    IF c.t = "str" /\ HasKey(table, c.v) THEN Str(Lookup(table, c.v)) ELSE c

\* 6: s.str.lower().map(table).fillna(s) on one cell
Harmonise(c, table) ==
    LET low == StrLower(c)
    IN  IF low.t = "str" /\ HasKey(table, low.v) THEN Str(Lookup(table, low.v)) ELSE c

HarmoniseCol(df, col, table) ==
    SetCols(df, <<col>>,
        [i \in DOMAIN df.data |-> [r \in 1..df.n |-> Harmonise(df.data[i][r], table)]])

CategoricalHarmonisation(df) ==
    HarmoniseCol(
        HarmoniseCol(HarmoniseCol(df, Payment_Mode, PAYMENT_MODE_MAP),
                     Delivery_Status, DELIVERY_STATUS_MAP),
        Gender, GENDER_MAP)

\* 7: email formatting and the Email_Valid column (str.match, na=False)
EmailMatch(c) == Bool(c.t = "str" /\ EMAIL_REGEX(c.v))
EmailValidation(df) ==
    IF HasCol(df, Email)
    THEN LET d1 == SetCols(df, <<Email>>,
                       [i \in DOMAIN df.data |->
                           [r \in 1..df.n |-> StrStrip(StrLower(df.data[i][r]))]])
             e == GetCol(d1, Email)
         IN  SetCol(d1, Email_Valid, [r \in 1..d1.n |-> EmailMatch(e[r])])
    ELSE df

\* 8: Series.clip(1, 5)
ClipLower == 1
ClipUpper == 5
\* a variant of Clip with the upper bound only
ClipUpperOnly(c) ==
    IF c.t = "num" THEN Num(IF c.v > ClipUpper THEN ClipUpper ELSE c.v) ELSE c
Clip(c) ==
    IF c.t = "num"
    THEN Num(IF c.v < ClipLower THEN ClipLower ELSE IF c.v > ClipUpper THEN ClipUpper ELSE c.v)
    ELSE c
SatisfactionClipping(df) ==
    SetCols(df, <<Customer_Satisfaction>>,
        [i \in DOMAIN df.data |-> [r \in 1..df.n |-> Clip(df.data[i][r])]])

\* 9: proper-case cities / countries
ProperCase(df) ==
    SetCols(df, <<City, Country>>,
        [i \in DOMAIN df.data |-> [r \in 1..df.n |-> StrTitle(df.data[i][r])]])

\* 10: quality flags
MsgMissingName ==
    <<"M", "i", "s", "s", "i", "n", "g", " ", "C", "u", "s", "t", "o", "m", "e", "r",
      " ", "N", "a", "m", "e", ";", " ">>
MsgInvalidEmail ==
    <<"I", "n", "v", "a", "l", "i", "d", " ", "E", "m", "a", "i", "l", ";", " ">>
MsgInvalidAmount ==
    <<"I", "n", "v", "a", "l", "i", "d", " ", "P", "u", "r", "c", "h", "a", "s", "e",
      " ", "A", "m", "o", "u", "n", "t", ";", " ">>

\* df["Customer_Name"].eq("") | df["Customer_Name"].isna()
MissName(c) == (c.t = "str" /\ c.v = <<>>) \/ IsNa(c)
\* ~df["Email_Valid"]
NotValid(c) == c.t = "bool" /\ ~c.v
\* a variant of BadAmt with lt(0) for le(0)
BadAmtStrict(c) == (c.t = "num" /\ c.v < 0) \/ IsNa(c)
\* df["Purchase_Amount"].le(0) | df["Purchase_Amount"].isna()
BadAmt(c) == (c.t = "num" /\ c.v <= 0) \/ IsNa(c)

QualityFlags(df) ==
    LET d0 == SetCol(df, Data_Quality_Issues, Full(df, Str(<<>>)))
        d1 == IF HasCol(d0, Customer_Name)
              THEN LocAppend(d0, [r \in 1..d0.n |-> MissName(GetCol(d0, Customer_Name)[r])],
                             Data_Quality_Issues, MsgMissingName)
              ELSE d0
        d2 == IF HasCol(d1, Email)
              THEN LocAppend(d1, [r \in 1..d1.n |-> NotValid(GetCol(d1, Email_Valid)[r])],
                             Data_Quality_Issues, MsgInvalidEmail)
              ELSE d1
    IN  IF HasCol(d2, Purchase_Amount)
        THEN LocAppend(d2, [r \in 1..d2.n |-> BadAmt(GetCol(d2, Purchase_Amount)[r])],
                       Data_Quality_Issues, MsgInvalidAmount)
        ELSE d2

\* the print at the end: rows, and rows with a non-empty Data_Quality_Issues
Summary(df) ==
    [rows |-> df.n,
     issues |-> Cardinality({r \in 1..df.n : GetCol(df, Data_Quality_Issues)[r].v # <<>>})]

\* df = df.copy(): a new object holding the same columns and cells
NewId(h) == Cardinality(DOMAIN h) + 1
\* a variant of Copy without the copy: the local name is bound to the
\* caller's object
CopyAlias(h, id) == [heap |-> h, id |-> id]
Copy(h, id) == [heap |-> (NewId(h) :> h[id]) @@ h, id |-> NewId(h)]

\* steps 4 to 10, which raise nothing
AfterCategory(df) ==
    QualityFlags(ProperCase(SatisfactionClipping(EmailValidation(
        CategoricalHarmonisation(DateParsing(NumericCoercion(df)))))))

\* clean_dataset(heap[id]): the heap after the call, and either the id of the
\* returned DataFrame (exc = "") or the exception raised.  Every assignment
\* of the body goes to the object the local name df is bound to.
clean_dataset(h, id) ==
    LET c == Copy(h, id)
        d2 == TextNormalise(StripColumns(c.heap[c.id]))
    IN  IF CategoryRaises(d2)
        THEN [heap |-> [c.heap EXCEPT ![c.id] = d2], exc |-> "KeyError",
              id |-> 0, summary |-> <<>>]
        ELSE LET d10 == AfterCategory(CategoryCorrection(d2))
             IN  [heap |-> [c.heap EXCEPT ![c.id] = d10], exc |-> "",
                  id |-> c.id, summary |-> Summary(d10)]

---------------------------------------------------------------------------
(* The datasets a caller hands to clean_dataset *)

\* bounds of the model
MaxRows == 2
MaxCalls == 2

Notes == <<"N", "o", "t", "e", "s">>

\* the schema of the live project workbook, and one column outside it
Schema ==
    << Customer_Name, Email, Gender, Age, City, Country, Product_Name,
       Product_Category, Purchase_Amount, Discount_Offered, Payment_Mode,
       Delivery_Status, Purchase_Date, Customer_Satisfaction, Notes >>

\* a row with nothing to clean but case and whitespace
BaseRow ==
    (Customer_Name :> Str(<<"A", "n", "n">>)) @@
    (Email :> Str(<<"a", "@", "b", ".", "c", "o">>)) @@
    (Gender :> Str(<<"F">>)) @@
    (Age :> Str(<<"4", "1">>)) @@
    (City :> Str(<<"n", "e", "w", " ", "d", "e", "l", "h", "i">>)) @@
    (Country :> Str(<<"i", "n", "d", "i", "a">>)) @@
    (Product_Name :> Str(<<"D", "e", "s", "k">>)) @@
    (Product_Category :> Str(<<" ", "T", "o", "y", "s", " ">>)) @@
    (Purchase_Amount :> Num(10)) @@
    (Discount_Offered :> Num(0)) @@
    (Payment_Mode :> Str(<<"u", "p", "i">>)) @@
    (Delivery_Status :> Str(<<"P", "e", "n", "d", "i", "n", "g">>)) @@
    (Purchase_Date :> Str(<<"0", "1", "/", "0", "2", "/", "2", "0", "2", "4">>)) @@
    (Customer_Satisfaction :> Num(3)) @@
    (Notes :> Str(<<"g", "i", "f", "t">>))

GamingLaptopPro ==
    <<"G", "a", "m", "i", "n", "g", " ", "L", "a", "p", "t", "o", "p", " ", "P", "r", "o">>
NotAnEmail == <<"n", "o", "t", "-", "a", "n", "-", "e", "m", "a", "i", "l">>

\* a row that fails every quality check, names a laptop and rates 7
WorstRow ==
    [BaseRow EXCEPT ![Customer_Name] = Str(<<>>),
                    ![Email] = Str(NotAnEmail),
                    ![Purchase_Amount] = Num(-5),
                    ![Product_Name] = Str(GamingLaptopPro),
                    ![Customer_Satisfaction] = Num(7)]

NameValues == {NaN, Str(<<>>), Str(<<" ", " ">>), Str(<<"A", "n", "n">>)}
EmailValues ==
    {NaN, Str(NotAnEmail), Str(<<"a", "@", "b", ".", "c">>),
     Str(<<"A", ".", "L", "e", "e", "@", "M", "a", "i", "l", ".", "C", "O", "M", " ">>)}
AmountValues == {NaN, Num(-5), Num(0), Num(10), Str(<<"a", "b", "c">>)}
ProductValues ==
    {NaN, Str(GamingLaptopPro), Str(<<"D", "e", "s", "k">>),
     Str(<<"S", "O", "F", "A", " ", "b", "e", "d">>),
     Str(<<"n", "o", "v", "e", "l", " ", "a", "b", "o", "u", "t", " ", "s", "h", "o", "e", "s">>)}
CategoryValues == {NaN, Str(<<" ", "T", "o", "y", "s", " ">>), Str(Home)}
SatisfactionValues ==
    {NaN, Num(-2), Num(0), Num(1), Num(3), Num(5), Num(7), Str(<<"4">>),
     Str(<<"a", "b", "c">>)}
PaymentValues ==
    {NaN, Str(<<"U", "P", "I", " ">>), Str(<<"C", "h", "e", "q", "u", "e">>),
     Str(<<" ", "d", "e", "b", "i", "t", " ", "C", "A", "R", "D">>)}
DeliveryValues ==
    {NaN, Str(<<"D", "E", "L", "I", "V", "E", "R", "E", "D">>), Str(<<"L", "o", "s", "t">>)}
GenderValues ==
    {Str(<<"M">>), Str(<<"f", "e", "m", "a", "l", "e", " ">>), Str(<<"O", "t", "h", "e", "r">>)}

\* an input: the columns left out of the file, the columns whose header
\* carries surrounding blanks, and the first row
Input(absent, padded, row) == [absent |-> absent, padded |-> padded, row |-> row]

QualityInputs ==
    {Input(a, {}, [BaseRow EXCEPT ![Customer_Name] = n, ![Email] = e, ![Purchase_Amount] = p]) :
        a \in SUBSET {Customer_Name, Email, Purchase_Amount},
        n \in NameValues, e \in EmailValues, p \in AmountValues}
CategoryInputs ==
    {Input(a, {}, [BaseRow EXCEPT ![Product_Name] = n, ![Product_Category] = c]) :
        a \in SUBSET {Product_Name, Product_Category},
        n \in ProductValues, c \in CategoryValues}
SatisfactionInputs ==
    {Input(a, {}, [BaseRow EXCEPT ![Customer_Satisfaction] = v]) :
        a \in SUBSET {Customer_Satisfaction}, v \in SatisfactionValues}
HarmonisationInputs ==
    {Input(a, {}, [BaseRow EXCEPT ![Payment_Mode] = pm, ![Delivery_Status] = d, ![Gender] = g]) :
        a \in SUBSET {Payment_Mode, Delivery_Status, Gender},
        pm \in PaymentValues, d \in DeliveryValues, g \in GenderValues}
OtherInputs ==
    {Input(a, pd, [BaseRow EXCEPT ![Purchase_Date] = d]) :
        a \in {{}, {City, Country}, {Purchase_Date, Age, Discount_Offered, Notes}},
        pd \in SUBSET {Email, Product_Name},
        d \in {NaN, Str(<<"0", "1", "/", "0", "2", "/", "2", "0", "2", "4">>),
               Str(<<"a", "b", "c">>)}}

Inputs ==
    QualityInputs \cup CategoryInputs \cup SatisfactionInputs
        \cup HarmonisationInputs \cup OtherInputs

\* the rows after the first
RECURSIVE RowSeqs(_)
RowSeqs(n) ==
    IF n = 0 THEN {<<>>}
    ELSE RowSeqs(n - 1) \cup
         {Append(s, r) : s \in {t \in RowSeqs(n - 1) : Len(t) = n - 1}, r \in {BaseRow, WorstRow}}

\* the DataFrame of an input and its rows
FrameOf(in, more) ==
    LET keys == SelectSeq(Schema, LAMBDA l : l \notin in.absent)
        rows == <<in.row>> \o more
    IN  Frame([i \in DOMAIN keys |->
                  IF keys[i] \in in.padded THEN <<" ">> \o keys[i] \o <<" ">> ELSE keys[i]],
              [i \in DOMAIN keys |-> [r \in DOMAIN rows |-> rows[r][keys[i]]]],
              Len(rows))

\* every dataset has one to MaxRows rows
Datasets == {FrameOf(in, more) : in \in Inputs, more \in RowSeqs(MaxRows - 1)}

---------------------------------------------------------------------------
(* A caller of clean_dataset: it cleans its dataset, and may clean the       *)
(* dataset it got back again                                                 *)

NoPath == <<>>
NoDisk == [input |-> "none", output |-> "none"]
NoFiles == <<>>

Init ==
    /\ \E df \in Datasets :
        /\ heap = (1 :> df)
        /\ given = df
    /\ caller = 1
    /\ calls = <<>>
    /\ path = NoPath
    /\ disk = NoDisk
    /\ files = NoFiles
    /\ pc = "caller"
    /\ ret = <<>>
    /\ printed = <<>>

Returned(r) == [exc |-> r.exc, id |-> r.id, summary |-> r.summary]

\* clean_dataset(df) on the caller's dataset
CallClean ==
    /\ pc = "caller"
    /\ calls = <<>>
    /\ LET r == clean_dataset(heap, caller)
       IN  /\ heap' = r.heap
           /\ calls' = Append(calls, Returned(r))
    /\ UNCHANGED <<caller, given, path, disk, files, pc, ret, printed>>

\* clean_dataset(out) on the dataset the last call returned
CallCleanAgain ==
    /\ pc = "caller"
    /\ calls # <<>>
    /\ Len(calls) < MaxCalls
    /\ calls[Len(calls)].exc = ""
    /\ LET r == clean_dataset(heap, calls[Len(calls)].id)
       IN  /\ heap' = r.heap
           /\ calls' = Append(calls, Returned(r))
    /\ UNCHANGED <<caller, given, path, disk, files, pc, ret, printed>>

Next == CallClean \/ CallCleanAgain

Spec == Init /\ [][Next]_vars

---------------------------------------------------------------------------
(* _read_file, _write_file, load_clean_validate (lines 71-87, 167-181) *)

\* str.lower().endswith(ext)
LowerEndsWith(p, ext) == EndsWith(Lower(p), ext)

IsCsv(p) == LowerEndsWith(p, <<".", "c", "s", "v">>)
IsExcel(p) ==
    LowerEndsWith(p, <<".", "x", "l", "s">>) \/ LowerEndsWith(p, <<".", "x", "l", "s", "x">>)

\* _read_file: the loader picked by the extension, or ValueError; a loader
\* raises when the file is missing or cannot be parsed
_read_file(p, d, content) ==
    IF IsCsv(p) \/ IsExcel(p)
    THEN IF d.input = "ok"
         THEN [exc |-> "", df |-> content, loader |-> IF IsCsv(p) THEN "csv" ELSE "excel"]
         ELSE [exc |-> "ReadError", df |-> <<>>, loader |-> ""]
    ELSE [exc |-> "ValueError", df |-> <<>>, loader |-> ""]

\* the alternatives of the group (csv|xlsx?|xls)
ExtWords == {<<"c", "s", "v">>, <<"x", "l", "s">>, <<"x", "l", "s", "x">>}

\* a variant of ExtMatches without flags=re.I
ExtMatchesCaseSensitive(p) ==
    {i \in DOMAIN p :
        /\ p[i] = "."
        /\ \E e \in {Len(p)} \cup (IF p[Len(p)] = "\n" THEN {Len(p) - 1} ELSE {}) :
            SubSeq(p, i + 1, e) \in ExtWords}

\* the positions where \.(csv|xlsx?|xls)$ matches under re.I: a "." followed
\* by one of the words up to the end of the string, or up to one trailing
\* newline
ExtMatches(p) ==
    {i \in DOMAIN p :
        /\ p[i] = "."
        /\ \E e \in {Len(p)} \cup (IF p[Len(p)] = "\n" THEN {Len(p) - 1} ELSE {}) :
            Lower(SubSeq(p, i + 1, e)) \in ExtWords}

\* re.sub(r"\.(csv|xlsx?|xls)$", r"_cleaned.\1", original_path, flags=re.I)
CleanedPath(p) ==
    IF ExtMatches(p) = {} THEN p
    ELSE LET i == CHOOSE j \in ExtMatches(p) : \A k \in ExtMatches(p) : j <= k
         IN  SubSeq(p, 1, i - 1) \o <<"_", "c", "l", "e", "a", "n", "e", "d">>
                \o SubSeq(p, i, Len(p))

\* the writer _write_file picks
WriterOf(cleaned) == IF IsCsv(cleaned) THEN "csv" ELSE "excel"

\* the file _write_file leaves at the cleaned path: its format, the
\* DataFrame object written, and whether the write ran to its end
File(fmt, id, complete) == [fmt |-> fmt, df |-> id, complete |-> complete]

\* a variant of CleanOutcome where the exception does not leave the try block
CleanOutcomeContinue(exc) == "write"

\* where the try block goes after clean_dataset: on to _write_file, or to the
\* except clause and out
CleanOutcome(exc) == IF exc # "" THEN "done" ELSE "write"

Cross == <<"X">>
None == <<"None">>

Stems == {<<"d">>, <<"a", ".", "b">>, <<"x", ".", "c", "s", "v">>}
Exts ==
    {<<".", "c", "s", "v">>, <<".", "C", "S", "V">>, <<".", "C", "s", "v">>,
     <<".", "x", "l", "s">>, <<".", "X", "L", "S">>, <<".", "x", "l", "s", "x">>,
     <<".", "x", "l", "s", "X">>, <<".", "t", "x", "t">>, <<".", "x", "l", "s", "m">>,
     <<"c", "s", "v">>, <<".", "c", "s", "v", "\n">>, <<>>}
Paths == {st \o ex : st \in Stems, ex \in Exts}

FileContents ==
    {FrameOf(Input({}, {}, BaseRow), <<>>),
     FrameOf(Input({}, {}, WorstRow), <<BaseRow>>),
     FrameOf(Input({Product_Name}, {}, BaseRow), <<>>)}

InitLoad ==
    /\ path \in Paths
    /\ disk \in [input : {"ok", "unreadable"}, output : {"ok", "fails"}]
    /\ given \in FileContents
    /\ heap = <<>>
    /\ caller = 0
    /\ calls = <<>>
    /\ files = NoFiles
    /\ pc = "read"
    /\ ret = <<>>
    /\ printed = <<>>

\* df_raw = _read_file(file_path)
ReadStep ==
    /\ pc = "read"
    /\ LET r == _read_file(path, disk, given)
       IN  IF r.exc # ""
           THEN /\ printed' = <<Cross, r.exc>>
                /\ ret' = None
                /\ pc' = "done"
                /\ UNCHANGED <<heap, caller>>
           ELSE /\ heap' = (NewId(heap) :> r.df) @@ heap
                /\ caller' = NewId(heap)
                /\ pc' = "clean"
                /\ UNCHANGED <<printed, ret>>
    /\ UNCHANGED <<given, calls, path, disk, files>>

\* df_clean = clean_dataset(df_raw)
CleanStep ==
    /\ pc = "clean"
    /\ LET r == clean_dataset(heap, caller)
       IN  /\ heap' = r.heap
           /\ calls' = Append(calls, Returned(r))
           /\ pc' = CleanOutcome(r.exc)
           /\ IF pc' = "done"
              THEN printed' = <<Cross, r.exc>> /\ ret' = None
              ELSE printed' = <<"summary", r.summary>> /\ ret' = ret
    /\ UNCHANGED <<caller, given, path, disk, files>>

\* out_path = _write_file(df_clean, file_path), and the print of it
WriteStep ==
    /\ pc = "write"
    /\ LET out == CleanedPath(path)
           id == calls[Len(calls)].id
       IN  IF disk.output = "ok"
           THEN /\ files' = (out :> File(WriterOf(out), id, TRUE)) @@ files
                /\ printed' = <<"saved", out>>
                /\ ret' = ret
                /\ pc' = "report"
           ELSE \* the writer raises, before or after it created the file
                /\ \E created \in BOOLEAN :
                      files' = IF created
                               THEN (out :> File(WriterOf(out), id, FALSE)) @@ files
                               ELSE files
                /\ printed' = <<Cross, "WriteError">>
                /\ ret' = None
                /\ pc' = "done"
    /\ UNCHANGED <<heap, caller, given, calls, path, disk>>

\* the validation snapshot (nulls per column), and return df_clean
NullCounts(df) ==
    [i \in DOMAIN df.columns |->
        Cardinality({r \in 1..df.n : IsNa(df.data[i][r])})]
ReportStep ==
    /\ pc = "report"
    /\ printed' = <<"nulls", NullCounts(heap[calls[Len(calls)].id])>>
    /\ ret' = <<"df", calls[Len(calls)].id>>
    /\ pc' = "done"
    /\ UNCHANGED <<heap, caller, given, calls, path, disk, files>>

NextLoad == ReadStep \/ CleanStep \/ WriteStep \/ ReportStep

SpecLoad == InitLoad /\ [][NextLoad]_vars

---------------------------------------------------------------------------
(* What the claims speak of *)

\* the calls that returned a dataset
Done == {k \in DOMAIN calls : calls[k].exc = ""}
\* the dataset call k was given (its labels stripped), and the one it returned
In(k) == IF k = 1 THEN StripColumns(given) ELSE heap[calls[k - 1].id]
Out(k) == heap[calls[k].id]
Rows(k) == 1..In(k).n

\* the text of a cell once coerced to text and trimmed
Trimmed(c) == Strip(AsStr(c).v)

ConfiguredColumns == Range(TEXT_COLUMNS) \cup Range(NUMERIC_COLUMNS) \cup Range(DATE_COLUMNS)

AllThreeIssues == MsgMissingName \o MsgInvalidEmail \o MsgInvalidAmount

---------------------------------------------------------------------------
C1_NameFails(df, r) ==
    HasCol(df, Customer_Name) /\ GetCol(df, Customer_Name)[r] = Str(<<>>)
C1_EmailFails(df, r) ==
    HasCol(df, Email) /\ GetCol(df, Email_Valid)[r] = Bool(FALSE)
C1_AmountFails(df, r) ==
    /\ HasCol(df, Purchase_Amount)
    /\ LET a == GetCol(df, Purchase_Amount)[r]
       IN  a = NaN \/ (a.t = "num" /\ a.v <= 0)
C1_Expected(df, r) ==
    (IF C1_NameFails(df, r) THEN MsgMissingName ELSE <<>>)
        \o (IF C1_EmailFails(df, r) THEN MsgInvalidEmail ELSE <<>>)
        \o (IF C1_AmountFails(df, r) THEN MsgInvalidAmount ELSE <<>>)
C1_IsExampleRow(df, r) ==
    /\ HasCol(df, Customer_Name) /\ GetCol(df, Customer_Name)[r] = Str(<<>>)
    /\ HasCol(df, Email) /\ GetCol(df, Email)[r] = Str(NotAnEmail)
    /\ HasCol(df, Purchase_Amount) /\ GetCol(df, Purchase_Amount)[r] = Num(-5)

\* C1: in every returned dataset, each row's Data_Quality_Issues is the
\* concatenation, in the order name, email, amount, of the messages of exactly
\* the checks that fail on that row (name present and empty; email present
\* and Email_Valid false; amount present and <= 0 or missing), empty when
\* none fails; the row ("", "not-an-email", -5) gets all three messages.
C1_QualityIssuesExact ==
    \A k \in Done : \A r \in Rows(k) :
        /\ GetCol(Out(k), Data_Quality_Issues)[r] = Str(C1_Expected(Out(k), r))
        /\ C1_IsExampleRow(In(k), r) =>
              GetCol(Out(k), Data_Quality_Issues)[r] = Str(AllThreeIssues)
C1_Witness ==
    \E k \in Done : \E r \in Rows(k) :
        /\ C1_IsExampleRow(In(k), r)
        /\ GetCol(Out(k), Data_Quality_Issues)[r] = Str(AllThreeIssues)

\* C2: whichever configured columns are absent, clean_dataset raises nothing
\* and adds no column for an absent configured column.
C2_AbsentColumnsNoOp ==
    \A k \in DOMAIN calls :
        /\ calls[k].exc = ""
        /\ \A col \in ConfiguredColumns :
              ~HasCol(In(k), col) => ~HasCol(Out(k), col)

C3_InputNameMissing(c) == IsNa(c) \/ (c.t = "str" /\ Strip(c.v) = <<>>)

\* C3: with Customer_Name present, a row has "Missing Customer Name; " in
\* Data_Quality_Issues exactly when its input name is missing (null) or
\* empty after trimming.
C3_MissingNameFlagged ==
    \A k \in Done : HasCol(In(k), Customer_Name) =>
        \A r \in Rows(k) :
            C3_InputNameMissing(GetCol(In(k), Customer_Name)[r])
                <=> StartsWithAt(GetCol(Out(k), Data_Quality_Issues)[r].v, MsgMissingName, 1)

C4_Matching(name) ==
    {i \in DOMAIN CATEGORY_MAPPINGS : Contains(Lower(name), CATEGORY_MAPPINGS[i][1])}
C4_Last(S) == CHOOSE i \in S : \A j \in S : j <= i
C4_RowOk(k, r) ==
    LET name == Trimmed(GetCol(In(k), Product_Name)[r])
        cat == GetCol(Out(k), Product_Category)[r]
    IN  IF C4_Matching(name) # {}
        THEN cat = Str(CATEGORY_MAPPINGS[C4_Last(C4_Matching(name))][2])
        ELSE HasCol(In(k), Product_Category) =>
                cat = Str(Trimmed(GetCol(In(k), Product_Category)[r]))

\* C4: a row whose lower-cased product name contains a keyword of
\* CATEGORY_MAPPINGS gets the category of the last matching pair of the
\* table, whatever its category was; a row that contains none keeps its
\* (trimmed) category.
C4_LastMatchWins ==
    \A k \in Done : \A r \in Rows(k) :
        /\ C4_RowOk(k, r)
        /\ GetCol(In(k), Product_Name)[r] = Str(GamingLaptopPro) =>
              GetCol(Out(k), Product_Category)[r] = Str(Electronics)
C4_Witness ==
    \E k \in Done : \E r \in Rows(k) :
        /\ Cardinality(C4_Matching(Trimmed(GetCol(In(k), Product_Name)[r]))) = 2
        /\ HasCol(In(k), Product_Category)
        /\ GetCol(In(k), Product_Category)[r] = Str(Home)
        /\ GetCol(Out(k), Product_Category)[r] = Str(Books)

C5_ReadFailed == caller = 0 /\ pc = "done"
C5_CleanFailed == calls # <<>> /\ calls[1].exc # ""

\* C5: load_clean_validate writes the output file only after _read_file and
\* clean_dataset have both returned; when either raises, the error is
\* printed, None is returned and no file has been written.
C5_NoOutputOnFailure ==
    /\ files # NoFiles => (caller # 0 /\ calls # <<>> /\ calls[1].exc = "")
    /\ (C5_ReadFailed \/ C5_CleanFailed) =>
          /\ files = NoFiles
          /\ pc = "done"
          /\ ret = None
          /\ printed[1] = Cross
C5_Witness ==
    /\ C5_CleanFailed
    /\ printed = <<Cross, "KeyError">>
    /\ ret = None
    /\ files = NoFiles

C6_IsInsertion(p, out) ==
    \E n \in {4, 5} :
        /\ n < Len(p) + 1
        /\ LET stem == SubSeq(p, 1, Len(p) - n)
               ext == SubSeq(p, Len(p) - n + 1, Len(p))
           IN  /\ Lower(ext) \in {<<".", "c", "s", "v">>, <<".", "x", "l", "s">>,
                                  <<".", "x", "l", "s", "x">>}
               /\ out = stem \o <<"_", "c", "l", "e", "a", "n", "e", "d">> \o ext

\* C6: for a path _read_file accepts, _write_file writes to the path with
\* "_cleaned" inserted right before the extension, in the format of the
\* input, and never to the input path itself.
C6_CleanedPathAndFormat ==
    \A out \in DOMAIN files :
        /\ C6_IsInsertion(path, out)
        /\ out # path
        /\ files[out].fmt = IF EndsWith(Lower(path), <<".", "c", "s", "v">>) THEN "csv" ELSE "excel"
C6_Witness ==
    /\ pc = "done"
    /\ ret # None
    /\ EndsWith(path, <<".", "X", "L", "S">>)
    /\ DOMAIN files = {SubSeq(path, 1, Len(path) - 4) \o
                          <<"_", "c", "l", "e", "a", "n", "e", "d", ".", "X", "L", "S">>}

C7_Unparsable(c) ==
    IsNa(c) \/ (c.t = "str" /\ \E i \in DOMAIN c.v : ~IsDigit(c.v[i]) /\ c.v[i] \notin {"-", "+", " "})
C7_RowOk(c, out) ==
    /\ out = NaN \/ (out.t = "num" /\ out.v >= 1 /\ out.v <= 5)
    /\ C7_Unparsable(c) => out = NaN
    /\ c.t = "num" =>
          out = Num(IF c.v < 1 THEN 1 ELSE IF c.v > 5 THEN 5 ELSE c.v)

\* C7: after clean_dataset every Customer_Satisfaction is missing or within
\* [1, 5]: a number below 1 becomes 1, a number above 5 becomes 5, a number
\* in [1, 5] is unchanged, a missing or unparsable value is missing.
C7_SatisfactionClipped ==
    \A k \in Done : HasCol(In(k), Customer_Satisfaction) =>
        \A r \in Rows(k) :
            C7_RowOk(GetCol(In(k), Customer_Satisfaction)[r],
                     GetCol(Out(k), Customer_Satisfaction)[r])
C7_Witness ==
    \E k \in Done :
        /\ HasCol(In(k), Customer_Satisfaction)
        /\ \E r \in Rows(k) :
              /\ GetCol(In(k), Customer_Satisfaction)[r] = Num(0)
              /\ GetCol(Out(k), Customer_Satisfaction)[r] = Num(1)
        /\ \E r \in Rows(k) :
              /\ GetCol(In(k), Customer_Satisfaction)[r] = Num(7)
              /\ GetCol(Out(k), Customer_Satisfaction)[r] = Num(5)

C8_ColumnOk(k, col, table) ==
    HasCol(In(k), col) =>
        \A r \in Rows(k) :
            LET t == Trimmed(GetCol(In(k), col)[r])
            IN  GetCol(Out(k), col)[r] =
                    Str(IF HasKey(table, Lower(t)) THEN Lookup(table, Lower(t)) ELSE t)

\* C8: in each of Payment_Mode, Delivery_Status and Gender, a value whose
\* lower-cased trimmed text is a key of the column's map becomes the mapped
\* label; any other value stays its trimmed text, letter case kept.
C8_Harmonised ==
    \A k \in Done :
        /\ C8_ColumnOk(k, Payment_Mode, PAYMENT_MODE_MAP)
        /\ C8_ColumnOk(k, Delivery_Status, DELIVERY_STATUS_MAP)
        /\ C8_ColumnOk(k, Gender, GENDER_MAP)
C8_Witness ==
    \E k \in Done : \E r \in Rows(k) :
        /\ HasCol(In(k), Payment_Mode) /\ HasCol(In(k), Delivery_Status)
        /\ GetCol(In(k), Payment_Mode)[r] = Str(<<" ", "d", "e", "b", "i", "t", " ", "C", "A", "R", "D">>)
        /\ GetCol(Out(k), Payment_Mode)[r] = Str(<<"D", "e", "b", "i", "t", " ", "C", "a", "r", "d">>)
        /\ GetCol(In(k), Delivery_Status)[r] = Str(<<"L", "o", "s", "t">>)
        /\ GetCol(Out(k), Delivery_Status)[r] = Str(<<"L", "o", "s", "t">>)

\* C9: a call of clean_dataset, returning or raising, changes no DataFrame
\* that existed before it: the dataset passed in keeps its labels, rows and
\* cells, and the changes are in a new object.
C9_ArgumentUntouched ==
    [][\A id \in DOMAIN heap : heap'[id] = heap[id]]_vars
C9_Witness ==
    /\ calls # <<>>
    /\ calls[1].exc = ""
    /\ calls[1].id # caller
    /\ heap[calls[1].id] # given
    /\ heap[caller] = given

\* C10: cleaning the output of clean_dataset again yields the same
\* Product_Category on every row as cleaning once.
C10_CategoryIdempotent ==
    \A k \in Done : (k > 1) =>
        GetCol(Out(k), Product_Category) = GetCol(Out(k - 1), Product_Category)

====
